---- MODULE Spec2Model ----
(***************************************************************************)
(* Dual marching cubes extractor (src/tessellation/dual_marching_cubes.rs) *)
(* as a state machine.  Floats are fixed-point integers: lengths and field *)
(* values share one unit in which the resolution res is RES.  The object   *)
(* (value and normal queries) and the QEF solver are external; the object  *)
(* is a field over the sampled lattice, linear along lattice edges.        *)
(***************************************************************************)
EXTENDS Integers, Sequences, FiniteSets, TLC

\* ------------------------------------------------------------------ bounds
\* HitZero retries explored per tesselate call sequence.
MaxRetries == 2
\* Calls of tesselate on one extractor.
MaxCalls == 2
\* rand::random::<f64>() is drawn from {k / RandSteps : k \in 0..RandSteps-1}.
RandSteps == 2
\* Starting keys of the HashMap iteration orders explored.
MaxStarts == 3

\* --------------------------------------------------------- program constants
\* PRECISION = 0.05, in hundredths.
PRECISION == 5
\* usize arithmetic wraps at this modulus in release builds (2^64 scaled down).
UsizeMod == 65536
\* The resolution res handed to the constructor, in fixed-point units.
RES == 420
\* 3_f64.sqrt(), in thousandths.
SQRT3 == 1732

VARIABLES
    object,      \* the field seen from the current origin: Index -> value
    origin,      \* self.origin
    res,         \* self.res
    dim,         \* self.dim
    value_grid,  \* self.value_grid : Index -> Float
    edge_grid,   \* self.edge_grid  : <<Edge, Index>> -> Plane
    vertex_map,  \* self.vertex_map : <<edge_set, Index>> -> vertex id
    mesh,        \* self.mesh : [vertices, faces]
    qefs,        \* self.qefs
    clamps,      \* self.clamps
    pc,          \* where tesselate / try_tesselate stands
    err,         \* the Err(HitZero(p)) try_tesselate handed to tesselate
    order,       \* the iteration order of edge_grid.keys()
    cursor,      \* keys the running quad loop has visited
    returned,    \* the meshes tesselate has returned, oldest first
    nhit,        \* HitZero failures so far
    calls,       \* tesselate calls so far
    debug_assertions, \* build profile: debug_assert! and overflow checks on
    panic        \* the panic that ended the run, "" when none

vars == <<object, origin, res, dim, value_grid, edge_grid, vertex_map, mesh,
          qefs, clamps, pc, err, order, cursor, returned, nhit, calls,
          debug_assertions, panic>>

\* ------------------------------------------------------------ small helpers
Abs(x) == IF x < 0 THEN -x ELSE x
Min2(a, b) == IF a < b THEN a ELSE b
Max2(a, b) == IF a > b THEN a ELSE b

EmptyMap == [k \in {} |-> 0]
\* HashMap::insert: a new key, or a new value under an old key.
MapPut(m, k, v) == (k :> v) @@ m

\* f64::signum: 1.0 for positive numbers and +0.0, -1.0 for negative ones.
Signum(v) == IF v < 0 THEN -1 ELSE 1

\* usize addition and subtraction as the release build computes them.
WrapAdd(a, b) == (a + b) % UsizeMod
WrapSub(a, b) == (a - b + UsizeMod) % UsizeMod

offset(idx, off) ==
    <<WrapAdd(idx[1], off[1]), WrapAdd(idx[2], off[2]), WrapAdd(idx[3], off[3])>>

neg_offset(idx, off) ==
    <<WrapSub(idx[1], off[1]), WrapSub(idx[2], off[2]), WrapSub(idx[3], off[3])>>

\* ------------------------------------------------------------- cell tables
\* Corners A..H are 0..7, edges A..L are 0..11.
EDGE_DEF == << <<0, 1>>, <<0, 2>>, <<0, 4>>, <<2, 3>>, <<1, 3>>, <<1, 5>>,
               <<4, 5>>, <<4, 6>>, <<2, 6>>, <<6, 7>>, <<5, 7>>, <<3, 7>> >>

EDGE_OFFSET == << <<0, 0, 0>>, <<0, 0, 0>>, <<0, 0, 0>>, <<0, 1, 0>>,
                  <<1, 0, 0>>, <<1, 0, 0>>, <<0, 0, 1>>, <<0, 0, 1>>,
                  <<0, 1, 0>>, <<0, 1, 1>>, <<1, 0, 1>>, <<1, 1, 0>> >>

QUADS == << <<0, 6, 9, 3>>, <<1, 4, 10, 7>>, <<2, 8, 11, 5>> >>

base(e) == e % 3

RECURSIVE Shr(_, _)
Shr(x, n) == IF n = 0 \/ x = 0 THEN x ELSE Shr(x \div 2, n - 1)

RECURSIVE BitOr(_, _)
BitOr(a, b) ==
    IF a = 0 THEN b
    ELSE IF b = 0 THEN a
    ELSE (IF a % 2 = 1 \/ b % 2 = 1 THEN 1 ELSE 0) + 2 * BitOr(a \div 2, b \div 2)

OrShr(x, n) == BitOr(x, Shr(x, n))

pow2roundup(x) ==
    OrShr(OrShr(OrShr(OrShr(OrShr(OrShr(x - 1, 1), 2), 4), 8), 16), 32) + 1

\* ----------------------------------------------------- cell configurations
\* get_dmc_cell_configs() is not part of the sources at hand; the table is
\* built from its stated invariants: the edge-sets of a sign mask partition
\* its active edges, each edge-set is one connected patch, and the masks 0
\* and 255 have none.
CornerNeg(s, c) == Shr(s, c) % 2 = 1

ActiveEdges(s) ==
    {e \in 0..11 : CornerNeg(s, EDGE_DEF[e + 1][1]) # CornerNeg(s, EDGE_DEF[e + 1][2])}

Faces == {{c \in 0..7 : Shr(c, b) % 2 = v} : b \in 0..2, v \in 0..1}

FaceEdges(F) == {e \in 0..11 : EDGE_DEF[e + 1][1] \in F /\ EDGE_DEF[e + 1][2] \in F}

ShareNegCorner(s, e1, e2) ==
    \E c \in 0..7 : /\ CornerNeg(s, c)
                    /\ c \in {EDGE_DEF[e1 + 1][1], EDGE_DEF[e1 + 1][2]}
                    /\ c \in {EDGE_DEF[e2 + 1][1], EDGE_DEF[e2 + 1][2]}

\* Two active edges meet in a face of the cell: the only two of that face,
\* or, in a face with four, the two around the same negative corner.
Joined(s, e1, e2) ==
    \E F \in Faces :
        /\ e1 \in FaceEdges(F) /\ e2 \in FaceEdges(F)
        /\ \/ Cardinality(FaceEdges(F) \cap ActiveEdges(s)) = 2
           \/ ShareNegCorner(s, e1, e2)

RECURSIVE Patch(_, _)
Patch(s, es) ==
    LET more == es \cup {e \in ActiveEdges(s) : \E f \in es : Joined(s, e, f)}
    IN  IF more = es THEN es ELSE Patch(s, more)

cell_configs == [s \in 0..255 |-> {Patch(s, {e}) : e \in ActiveEdges(s)}]

\* ------------------------------------------------------------ the object
\* Side of the sampled cube, in grid steps.
Side(d) == pow2roundup(Max2(d[1], Max2(d[2], d[3])))
GridSide == Side(dim)

Lattice(n) == {<<i, j, k>> : i \in 0..(n - 1), j \in 0..(n - 1), k \in 0..(n - 1)}

\* World position of a grid index: origin + res * idx.
PointOf(idx) ==
    <<origin[1] + res * idx[1], origin[2] + res * idx[2], origin[3] + res * idx[3]>>

Unit(a) == [i \in 1..3 |-> IF i = a THEN 1 ELSE 0]

\* object.approx_value(p, res): the field at a lattice point, and linear in
\* between along the one axis on which p is off the lattice.
approx_value(p) ==
    LET rel == [i \in 1..3 |-> p[i] - origin[i]]
        idx == <<rel[1] \div res, rel[2] \div res, rel[3] \div res>>
        off == {i \in 1..3 : rel[i] % res # 0}
    IN  IF off = {} THEN object[idx]
        ELSE LET a  == CHOOSE i \in off : TRUE
                 lo == object[idx]
                 hi == object[<<idx[1] + Unit(a)[1], idx[2] + Unit(a)[2],
                                idx[3] + Unit(a)[3]>>]
             IN  lo + ((hi - lo) * (rel[a] % res)) \div res

\* object.normal(p): an uninterpreted unit vector attached to the point.
normal(p) == <<"normal", p>>

\* Field values the sampler descends on (within the sub-cube diagonal of
\* the top octants) and prunes on (beyond it).
NearValue == (5 * RES) \div 7
FarValue == 5 * RES

\* The top-level octant corner a lattice point falls under.
OctantOf(idx, n) ==
    LET h == n \div 2
    IN  <<h * (idx[1] \div h), h * (idx[2] \div h), h * (idx[3] \div h)>>

\* The fields: where the object is negative, where it is exactly zero, and
\* over which octants it is far from the surface.
NegChoices(n) ==
    {{}, {<<1, 1, 1>>}, {<<2, 2, 2>>}, {<<3, 3, 3>>}, {<<0, 1, 1>>},
     {<<1, 1, 1>>, <<2, 2, 1>>}, Lattice(n)}

ZeroChoices == {{}, {<<0, 0, 0>>}, {<<1, 1, 0>>}, {<<3, 3, 3>>}}

FarChoices(n) ==
    {{}, {<<2, 0, 0>>, <<0, 2, 2>>}, {OctantOf(i, n) : i \in Lattice(n)}}

Field(n, neg, zero, far) ==
    [idx \in Lattice(n) |->
        IF idx \in zero THEN 0
        ELSE (IF idx \in neg THEN -1 ELSE 1)
             * (IF OctantOf(idx, n) \in far THEN FarValue ELSE NearValue)]

Fields(n) ==
    {Field(n, neg, zero, far) :
        neg \in NegChoices(n), zero \in ZeroChoices, far \in FarChoices(n)}

\* bbox.dim() / res, rounded up: at least 3 after the dilation by 1 + 1.1 res.
DimSet == {<<3, 3, 3>>}

\* ------------------------------------------------------------ the sampler
NoError == [hit |-> FALSE, p |-> <<0, 0, 0>>]
HitZero(p) == [hit |-> TRUE, p |-> p]

\* The zero test dropped: a zero sample is stored like any other.
IsZeroNever(value) == FALSE

\* The zero test as value <= 0.
IsZeroOrBelow(value) == value <= 0

\* value == 0.
IsZero(value) == value = 0

\* size as Float * self.res * 3_f64.sqrt()
SubCubeDiagonal(size) == (size * res * SQRT3) \div 1000

RECURSIVE sample_value_grid(_, _, _, _, _)
RECURSIVE SampleCorners(_, _, _, _, _, _)

\* The z, y, x loops of sample_value_grid from corner c on; size is halved.
SampleCorners(grid, idx, pos, size, val, c) ==
    IF c = 8 THEN [grid |-> grid, err |-> NoError]
    ELSE
        LET x == c % 2
            y == (c \div 2) % 2
            z == c \div 4
            midx == <<idx[1] + x * size, idx[2] + y * size, idx[3] + z * size>>
            mpos == <<pos[1] + x * size * res, pos[2] + y * size * res,
                      pos[3] + z * size * res>>
            value == IF midx = idx THEN val ELSE approx_value(mpos)
        IN  IF IsZero(value) THEN [grid |-> grid, err |-> HitZero(mpos)]
            ELSE IF size > 1 /\ Abs(value) <= SubCubeDiagonal(size)
            THEN LET sub == sample_value_grid(grid, midx, mpos, size, value)
                 IN  IF sub.err.hit THEN sub
                     ELSE SampleCorners(sub.grid, idx, pos, size, val, c + 1)
            ELSE SampleCorners(MapPut(grid, midx, value), idx, pos, size, val, c + 1)

sample_value_grid(grid, idx, pos, size, val) ==
    SampleCorners(grid, idx, pos, size \div 2, val, 0)

\* --------------------------------------------------------- edge zero finder
Plane(p) == [p |-> p, n |-> normal(p)]

VecMin(v) == Min2(v[1], Min2(v[2], v[3]))
VecMax(v) == Max2(v[1], Max2(v[2], v[3]))

\* av.signum() == bv.signum()
SameSign(av, bv) == Signum(av) = Signum(bv)

RECURSIVE find_zero(_, _, _, _)
find_zero(a, av, b, bv) ==
    IF SameSign(av, bv) THEN [some |-> FALSE, plane |-> Plane(a)]
    ELSE
        LET d   == <<a[1] - b[1], a[2] - b[2], a[3] - b[3]>>
            d0  == Max2(Abs(VecMin(d)), VecMax(d))
            distance == Min2(Min2(d0, Abs(av)), Abs(bv))
        IN  IF distance * 100 < PRECISION * res
            THEN [some |-> TRUE,
                  plane |-> Plane(IF Abs(bv) < Abs(av) THEN b ELSE a)]
            ELSE
                LET t  == Abs(bv - av)
                    n  == <<a[1] + ((b[1] - a[1]) * Abs(av)) \div t,
                            a[2] + ((b[2] - a[2]) * Abs(av)) \div t,
                            a[3] + ((b[3] - a[3]) * Abs(av)) \div t>>
                    nv == approx_value(n)
                IN  IF Signum(av) # Signum(nv)
                    THEN find_zero(a, av, n, nv)
                    ELSE find_zero(n, nv, b, bv)

\* The localization loop without Edge::C.
BaseEdgesAB == {0, 1}

\* The base edges the localization loop walks: Edge::A, Edge::B, Edge::C.
BaseEdges == {0, 1, 2}

\* The planes the localization loop of try_tesselate inserts.
LocalizedEdges ==
    LET cand == {k \in BaseEdges \X DOMAIN value_grid :
                    /\ offset(k[2], Unit(k[1] + 1)) \in DOMAIN value_grid
                    /\ find_zero(PointOf(k[2]), value_grid[k[2]],
                                 PointOf(offset(k[2], Unit(k[1] + 1))),
                                 value_grid[offset(k[2], Unit(k[1] + 1))]).some}
    IN  [k \in cand |->
            find_zero(PointOf(k[2]), value_grid[k[2]],
                      PointOf(offset(k[2], Unit(k[1] + 1))),
                      value_grid[offset(k[2], Unit(k[1] + 1))]).plane]

\* ------------------------------------------------------- cell vertex builder
\* BitSet::as_usize of a set of bit numbers.
RECURSIVE AsUsize(_)
AsUsize(bits) ==
    IF bits = {} THEN 0
    ELSE LET b == CHOOSE x \in bits : TRUE
         IN  2 ^ b + AsUsize(bits \ {b})

\* The sign mask of a cell: bit z<<2 | y<<1 | x is set when the corner has a
\* stored value below zero; a corner without a value sets no bit.
bitset_for_cell(idx) ==
    {c \in 0..7 :
        LET corner == offset(idx, <<c % 2, (c \div 2) % 2, c \div 4>>)
        IN  corner \in DOMAIN value_grid /\ value_grid[corner] < 0}

\* The edge-set of the cell's configuration that holds edge, if there is one.
get_connected_edges(edge, cell) ==
    LET found == {es \in cell_configs[AsUsize(cell)] : edge \in es}
    IN  IF found = {} THEN [ok |-> FALSE, edge_set |-> {}]
        ELSE [ok |-> TRUE, edge_set |-> CHOOSE es \in found : TRUE]

\* The edge_grid key get_edge_tangent_plane reads for an edge of a cell.
PlaneKey(edge, cell_idx) == <<base(edge), offset(cell_idx, EDGE_OFFSET[edge + 1])>>

is_in_cell(idx, p) ==
    \A i \in 1..3 :
        LET d == p[i] - origin[i] - idx[i] * res
        IN  d > 0 /\ d < res

\* The external QEF solver, a function of its planes and nothing else: it
\* answers the middle of the cell in every other cell, and the cell's corner
\* (not strictly inside) in the rest.
QefSolution(planes, idx) ==
    IF (idx[1] + idx[2] + idx[3]) % 2 = 0
    THEN <<PointOf(idx)[1] + res \div 2, PointOf(idx)[2] + res \div 2,
           PointOf(idx)[3] + res \div 2>>
    ELSE PointOf(idx)

RECURSIVE SumPoints(_)
SumPoints(planes) ==
    IF planes = <<>> THEN <<0, 0, 0>>
    ELSE LET h == Head(planes).p
             t == SumPoints(Tail(planes))
         IN  <<h[1] + t[1], h[2] + t[2], h[3] + t[3]>>

\* The edges of a BitSet in iteration order, as planes.
RECURSIVE PlanesOf(_, _)
PlanesOf(edges, idx) ==
    IF edges = {} THEN <<>>
    ELSE LET e == CHOOSE x \in edges : \A y \in edges : x <= y
         IN  <<edge_grid[PlaneKey(e, idx)]>> \o PlanesOf(edges \ {e}, idx)

\* compute_cell_point: the point and which counter it bumps; ok is FALSE when
\* get_edge_tangent_plane finds no plane for an edge of the set.
compute_cell_point(edge_set, idx) ==
    IF \E e \in edge_set : PlaneKey(e, idx) \notin DOMAIN edge_grid
    THEN [ok |-> FALSE, point |-> <<0, 0, 0>>, qef |-> FALSE]
    ELSE
        LET planes == PlanesOf(edge_set, idx)
            sol    == QefSolution(planes, idx)
            sum    == SumPoints(planes)
            n      == Len(planes)
        IN  IF is_in_cell(idx, sol)
            THEN [ok |-> TRUE, point |-> sol, qef |-> TRUE]
            ELSE [ok |-> TRUE, qef |-> FALSE,
                  point |-> <<sum[1] \div n, sum[2] \div n, sum[3] \div n>>]

\* vertex_list.len() taken after the push.
NewVertexIdAfterPush(vertices) == Len(vertices) + 1

\* vertex_list.len() before the push: the id of the vertex being appended.
NewVertexId(vertices) == Len(vertices)

\* A vertex of the mesh: its position, and the patch and cell it was built for.
Vertex(point, edge_set, idx) == [pos |-> point, edge_set |-> edge_set, cell |-> idx]

\* lookup_cell_point on the emitter's running state st = [vertices, vmap,
\* qefs, clamps, p, panic]: appends the id to p, or sets panic.
lookup_cell_point(st, edge, idx) ==
    LET conn == get_connected_edges(edge, bitset_for_cell(idx))
        key  == <<conn.edge_set, idx>>
        cp   == compute_cell_point(conn.edge_set, idx)
    IN  IF ~conn.ok THEN [st EXCEPT !.panic = "Did not find edge_set"]
        ELSE IF key \in DOMAIN st.vmap
        THEN [st EXCEPT !.p = Append(@, st.vmap[key])]
        ELSE IF ~cp.ok THEN [st EXCEPT !.panic = "could not find edge_point"]
        ELSE [st EXCEPT !.vertices = Append(@, Vertex(cp.point, conn.edge_set, idx)),
                        !.qefs = IF cp.qef THEN @ + 1 ELSE @,
                        !.clamps = IF cp.qef THEN @ ELSE @ + 1,
                        !.p = Append(@, NewVertexId(st.vertices))]

\* ------------------------------------------------------------- quad emitter
\* The four lookups of compute_quad, from the k-th on.
RECURSIVE QuadLookups(_, _, _, _)
QuadLookups(st, edge, idx, k) ==
    IF k > 4 \/ st.panic # "" THEN st
    ELSE LET q == QUADS[edge + 1][k]
         IN  QuadLookups(lookup_cell_point(st, q, neg_offset(idx, EDGE_OFFSET[q + 1])),
                         edge, idx, k + 1)

\* The winding test with the comparison turned round.
ReversedWhenPositive(idx) == idx \in DOMAIN value_grid /\ value_grid[idx] > 0

\* if let Some(v) = value_grid.get(&idx) { if *v < 0. { p.reverse() } }
Reversed(idx) == idx \in DOMAIN value_grid /\ value_grid[idx] < 0

Reverse(p) == [i \in 1..Len(p) |-> p[Len(p) + 1 - i]]

\* The two triangles pushed for the (possibly reversed) list p.
QuadFaces(p) == << <<p[1], p[2], p[3]>>, <<p[3], p[4], p[1]>> >>

\* compute_quad as a whole: the emitter's state after it.
compute_quad(edge, idx) ==
    LET st0 == [vertices |-> mesh.vertices, vmap |-> vertex_map, qefs |-> qefs,
                clamps |-> clamps, p |-> <<>>, panic |-> "", faces |-> mesh.faces]
        st1 == QuadLookups(st0, edge, idx, 1)
        p   == IF Reversed(idx) THEN Reverse(st1.p) ELSE st1.p
    IN  IF debug_assertions /\ \E i \in 1..3 : idx[i] = 0
        THEN [st0 EXCEPT !.panic = "debug_assert idx > 0"]
        ELSE IF st1.panic # "" THEN st1
        ELSE [st1 EXCEPT !.faces = @ \o QuadFaces(p)]

\* ------------------------------------------------------------------ actions
EmptyMesh == [vertices |-> <<>>, faces |-> <<>>]

\* DualMarchingCubes::new
Init ==
    /\ \E d \in DimSet : dim = d /\ object \in Fields(Side(d))
    /\ origin = <<0, 0, 0>>
    /\ res = RES
    /\ value_grid = EmptyMap
    /\ edge_grid = EmptyMap
    /\ vertex_map = EmptyMap
    /\ mesh = EmptyMesh
    /\ qefs = 0
    /\ clamps = 0
    /\ pc = "idle"
    /\ err = NoError
    /\ order = <<>>
    /\ cursor = 0
    /\ returned = <<>>
    /\ nhit = 0
    /\ calls = 0
    /\ debug_assertions \in BOOLEAN
    /\ panic = ""

\* A caller enters tesselate.
Tesselate ==
    /\ pc = "idle"
    /\ calls < MaxCalls
    /\ calls' = calls + 1
    /\ pc' = "try"
    /\ UNCHANGED <<object, origin, res, dim, value_grid, edge_grid, vertex_map,
                   mesh, qefs, clamps, err, order, cursor, returned, nhit,
                   debug_assertions, panic>>

\* try_tesselate up to the end of sampling.
TrySample ==
    /\ pc = "try"
    /\ LET r == sample_value_grid(value_grid, <<0, 0, 0>>, origin, GridSide,
                                  approx_value(origin))
       IN  /\ value_grid' = r.grid
           /\ err' = r.err
           /\ pc' = IF r.err.hit THEN "err" ELSE "edges"
    /\ UNCHANGED <<object, origin, res, dim, edge_grid, vertex_map, mesh, qefs,
                   clamps, order, cursor, returned, nhit, calls,
                   debug_assertions, panic>>

\* The keys of a map in ascending order.
KeyRank(k) == ((k[1] * UsizeMod + k[2][1]) * 16 + k[2][2]) * 16 + k[2][3]

RECURSIVE SortedKeys(_)
SortedKeys(keys) ==
    IF keys = {} THEN <<>>
    ELSE LET k == CHOOSE x \in keys : \A y \in keys : KeyRank(x) <= KeyRank(y)
         IN  <<k>> \o SortedKeys(keys \ {k})

Rotate(q, r) == [i \in 1..Len(q) |-> q[((i - 1 + r) % Len(q)) + 1]]

\* The iteration orders of a HashMap with these keys that are explored: the
\* sorted order from one of its first MaxStarts keys on, forwards and
\* backwards.
KeyOrders(keys) ==
    IF keys = {} THEN {<<>>}
    ELSE LET starts == 0..(Min2(Cardinality(keys), MaxStarts) - 1)
         IN  {Rotate(SortedKeys(keys), r) : r \in starts}
             \cup {Reverse(Rotate(SortedKeys(keys), r)) : r \in starts}

\* try_tesselate: the localization loop over value_grid.
LocalizeEdges ==
    /\ pc = "edges"
    /\ LET found == LocalizedEdges
       IN  /\ edge_grid' = found @@ edge_grid
           /\ IF DOMAIN (found @@ edge_grid) = DOMAIN edge_grid
              THEN order' = order
              ELSE order' \in KeyOrders(DOMAIN (found @@ edge_grid))
    /\ cursor' = 0
    /\ pc' = "quads"
    /\ UNCHANGED <<object, origin, res, dim, value_grid, vertex_map, mesh, qefs,
                   clamps, err, returned, nhit, calls, debug_assertions,
                   panic>>

\* One turn of the quad loop, on the next key in the map's iteration order.
ComputeQuad ==
    /\ pc = "quads"
    /\ cursor < Len(order)
    /\ LET st == compute_quad(order[cursor + 1][1], order[cursor + 1][2])
       IN  /\ mesh' = [vertices |-> st.vertices, faces |-> st.faces]
           /\ vertex_map' = st.vmap
           /\ qefs' = st.qefs
           /\ clamps' = st.clamps
           /\ panic' = st.panic
           /\ pc' = IF st.panic # "" THEN "panicked" ELSE "quads"
    /\ cursor' = cursor + 1
    /\ UNCHANGED <<object, origin, res, dim, value_grid, edge_grid, err, order,
                   returned, nhit, calls, debug_assertions>>

\* try_tesselate returns Ok(mesh.clone()) and tesselate hands it on.
Return ==
    /\ pc = "quads"
    /\ cursor = Len(order)
    /\ returned' = Append(returned, mesh)
    /\ pc' = "idle"
    /\ UNCHANGED <<object, origin, res, dim, value_grid, edge_grid, vertex_map,
                   mesh, qefs, clamps, err, order, cursor, nhit, calls,
                   debug_assertions, panic>>

\* res / (10. + rand::random::<f64>().abs()) for the k-th random draw.
Padding(k) == (res * RandSteps) \div (10 * RandSteps + k)

\* The Err arm of tesselate without value_grid.clear().
RetryKeepsValueGrid ==
    /\ pc = "err"
    /\ nhit < MaxRetries
    /\ \E k \in 0..(RandSteps - 1) : origin' = [origin EXCEPT ![1] = @ - Padding(k)]
    /\ object' \in Fields(GridSide)
    /\ mesh' = EmptyMesh
    /\ qefs' = 0
    /\ clamps' = 0
    /\ nhit' = nhit + 1
    /\ pc' = "try"
    /\ UNCHANGED <<res, dim, value_grid, edge_grid, vertex_map, err, order, cursor,
                   returned, calls, debug_assertions, panic>>

\* The Err arm of tesselate: move the origin, clear, go round the loop.  The
\* lattice has moved, so the object shows other values on it.
Retry ==
    /\ pc = "err"
    /\ nhit < MaxRetries
    /\ \E k \in 0..(RandSteps - 1) : origin' = [origin EXCEPT ![1] = @ - Padding(k)]
    /\ object' \in Fields(GridSide)
    /\ value_grid' = EmptyMap
    /\ mesh' = EmptyMesh
    /\ qefs' = 0
    /\ clamps' = 0
    /\ nhit' = nhit + 1
    /\ pc' = "try"
    /\ UNCHANGED <<res, dim, edge_grid, vertex_map, err, order, cursor, returned,
                   calls, debug_assertions, panic>>

Next ==
    \/ Tesselate
    \/ TrySample
    \/ LocalizeEdges
    \/ ComputeQuad
    \/ Return
    \/ Retry

Spec == Init /\ [][Next]_vars

\* ------------------------------------------------------------------- claims
Range(f) == {f[i] : i \in DOMAIN f}

\* The (edge_set, cell) a vertex of the mesh stands for.
KeyOf(v) == <<v.edge_set, v.cell>>

\* An attempt has got past sampling and edge localization.
Localized == pc \in {"quads", "panicked"} \/ (pc = "idle" /\ returned # <<>>)

\* C1: during quad emission the mesh receives at most one vertex for every
\* pair (edge_set, I), however often that patch of that cell is looked up.
\* Stated for the first call of tesselate, while no lookup has failed.
C1_OneVertexPerPatch ==
    (calls <= 1 /\ pc # "panicked") =>
        \A i, j \in 1..Len(mesh.vertices) :
            KeyOf(mesh.vertices[i]) = KeyOf(mesh.vertices[j]) => i = j

\* C2: the step that follows a HitZero failure leaves value_grid, edge_grid,
\* vertex_map and the mesh empty and both counters zero, moves origin.x down
\* by res / (10 + U) with U in [0, 1), and keeps origin.y, origin.z, res and
\* dim, after any number of failures in a row.
C2_RetryReset ==
    [][pc = "err" =>
          /\ value_grid' = EmptyMap
          /\ edge_grid' = EmptyMap
          /\ vertex_map' = EmptyMap
          /\ mesh' = EmptyMesh
          /\ qefs' = 0 /\ clamps' = 0
          /\ 10 * (origin[1] - origin'[1]) <= res
          /\ res < 11 * (origin[1] - origin'[1])
          /\ origin'[2] = origin[2] /\ origin'[3] = origin[3]
          /\ res' = res /\ dim' = dim
          /\ pc' = "try"]_vars

\* A second failure in a row, deep in the recursion (y index 1), has been
\* reset and the next attempt is about to start.
C2_Witness ==
    /\ pc = "try" /\ nhit >= 2
    /\ err.hit /\ err.p[2] = origin[2] + res
    /\ value_grid = EmptyMap

\* The lattice index of a sample position.
IndexAt(p) ==
    <<(p[1] - origin[1]) \div res, (p[2] - origin[2]) \div res,
      (p[3] - origin[3]) \div res>>

\* The lattice points the octree descent evaluates: the corners of the top
\* octants, and all of an octant whose corner value is within its diagonal.
Evaluated ==
    {i \in Lattice(GridSide) :
        \/ OctantOf(i, GridSide) = i
        \/ 1000 * Abs(object[OctantOf(i, GridSide)]) <= (GridSide \div 2) * res * SQRT3}

\* C3: no value in value_grid is zero; a failed sampling reports the position
\* of a zero sample, has not stored that sample, and the attempt has run no
\* later phase; an attempt that got past sampling met no zero sample.
C3_NoZeroStored ==
    /\ \A i \in DOMAIN value_grid : value_grid[i] # 0
    /\ pc = "err" =>
          /\ err.hit
          /\ approx_value(err.p) = 0
          /\ IndexAt(err.p) \notin DOMAIN value_grid
          /\ edge_grid = EmptyMap /\ mesh = EmptyMesh /\ cursor = 0
    /\ pc \in {"edges", "quads", "panicked"} =>
          \A i \in Evaluated : object[i] # 0

\* A zero met deep in the recursion, with value_grid partly filled.
C3_Witness ==
    /\ pc = "err"
    /\ value_grid # EmptyMap
    /\ IndexAt(err.p) \notin {OctantOf(i, GridSide) : i \in Lattice(GridSide)}

\* C4: once edge localization has finished, (e, I) is a key of edge_grid
\* exactly when e is a base edge and I and I + unit(e) both have values in
\* value_grid, of opposite signs.
C4_ActiveEdges ==
    LET Active(e, i) ==
            /\ e \in {0, 1, 2}
            /\ i \in DOMAIN value_grid
            /\ offset(i, Unit(e + 1)) \in DOMAIN value_grid
            /\ value_grid[i] * value_grid[offset(i, Unit(e + 1))] < 0
    IN  Localized =>
            /\ \A k \in DOMAIN edge_grid : Active(k[1], k[2])
            /\ \A i \in DOMAIN value_grid :
                  \A e \in 0..11 : Active(e, i) => <<e, i>> \in DOMAIN edge_grid

\* Quad emission has gone through a non-empty edge_grid over a sparse
\* value_grid: some sample's neighbour has no value.
C4_Witness ==
    /\ pc = "quads" /\ cursor > 0
    /\ \E i \in DOMAIN value_grid :
          /\ i[1] + 1 < GridSide
          /\ offset(i, <<1, 0, 0>>) \notin DOMAIN value_grid

\* C5: every lookup of quad emission succeeds; no active edge makes
\* compute_quad fail an assertion or a lookup.
C5_NoFatalLookup == pc # "panicked"

\* C6: the ids of every triangle of the mesh, of every mesh returned, and
\* every id in vertex_map are below the number of vertices.
C6_FacesInRange ==
    /\ \A f \in Range(mesh.faces) :
          \A k \in 1..3 : f[k] >= 0 /\ f[k] < Len(mesh.vertices)
    /\ \A m \in Range(returned) :
          \A f \in Range(m.faces) :
              \A k \in 1..3 : f[k] >= 0 /\ f[k] < Len(m.vertices)
    /\ \A k \in DOMAIN vertex_map : vertex_map[k] < Len(mesh.vertices)

\* A mesh with triangles has been returned after a retry.
C6_Witness ==
    /\ nhit >= 1
    /\ returned # <<>>
    /\ returned[1].faces # <<>>

\* The vertex a patch of a cell gets, whatever the order of the lookups.
ExpectedVertex(q, idx) ==
    LET cell == neg_offset(idx, EDGE_OFFSET[q + 1])
        es   == get_connected_edges(q, bitset_for_cell(cell)).edge_set
    IN  Vertex(compute_cell_point(es, cell).point, es, cell)

\* The two triangles of the quad of a key, as vertices.
ExpectedQuad(key) ==
    LET v  == [k \in 1..4 |-> ExpectedVertex(QUADS[key[1] + 1][k], key[2])]
        w  == IF value_grid[key[2]] < 0 THEN Reverse(v) ELSE v
    IN  {<<w[1], w[2], w[3]>>, <<w[3], w[4], w[1]>>}

\* C7: the vertices of a returned mesh, as a set, and its triangles, as a set
\* with each id replaced by the vertex it stands for, are determined by
\* value_grid and edge_grid alone, not by the order the keys were visited in.
C7_OrderIndependent ==
    pc = "idle" =>
        LET vs == {ExpectedVertex(QUADS[key[1] + 1][k], key[2]) :
                      key \in DOMAIN edge_grid, k \in 1..4}
            ts == UNION {ExpectedQuad(key) : key \in DOMAIN edge_grid}
        IN  \A m \in Range(returned) :
                /\ Range(m.vertices) = vs
                /\ {<<m.vertices[f[1] + 1], m.vertices[f[2] + 1],
                      m.vertices[f[3] + 1]>> : f \in Range(m.faces)} = ts

\* A mesh with triangles has been returned after the keys were visited in
\* another order than the sorted one.
C7_Witness ==
    /\ returned # <<>>
    /\ returned[1].faces # <<>>
    /\ order # SortedKeys(DOMAIN edge_grid)

\* Every sample of the lattice is non-zero and of one sign.
ConstantSign ==
    \/ \A i \in DOMAIN object : object[i] > 0
    \/ \A i \in DOMAIN object : object[i] < 0

\* C8: over a field of constant sign tesselate meets no HitZero and no fatal
\* lookup failure, edge_grid stays empty and the mesh, returned or not, has
\* no vertex and no triangle.
C8_EmptyField ==
    ConstantSign =>
        /\ pc \notin {"err", "panicked"}
        /\ edge_grid = EmptyMap
        /\ mesh = EmptyMesh
        /\ \A m \in Range(returned) : m = EmptyMesh

\* tesselate has returned over a negative field on its first attempt.
C8_Witness ==
    /\ ConstantSign /\ object[<<0, 0, 0>>] < 0
    /\ nhit = 0
    /\ pc = "idle" /\ returned # <<>>

\* The triangles of the q-th quad of the running loop, by the claim: the ids
\* p0..p3 stand for the patches of QUADS[e] in the four cells around the
\* edge, reversed when the value at I is negative.
QuadAsClaimed(q) ==
    LET key == order[q]
        b   == Len(mesh.faces) - 2 * cursor + 2 * (q - 1)
        t1  == mesh.faces[b + 1]
        t2  == mesh.faces[b + 2]
        p   == IF value_grid[key[2]] < 0
               THEN <<t2[2], t1[3], t1[2], t1[1]>>
               ELSE <<t1[1], t1[2], t1[3], t2[2]>>
    IN  /\ t2[1] = t1[3] /\ t2[3] = t1[1]
        /\ \A k \in 1..4 :
              /\ p[k] < Len(mesh.vertices)
              /\ mesh.vertices[p[k] + 1].cell =
                    neg_offset(key[2], EDGE_OFFSET[QUADS[key[1] + 1][k] + 1])
              /\ QUADS[key[1] + 1][k] \in mesh.vertices[p[k] + 1].edge_set

\* C9: every key visited has added exactly the two triangles (p0,p1,p2) and
\* (p2,p3,p0), built from the reversed list when the value at I is negative,
\* and a successful attempt returns exactly 2 * |edge_grid| triangles.
C9_QuadShape ==
    /\ pc = "quads" =>
          /\ Len(mesh.faces) >= 2 * cursor
          /\ \A q \in 1..cursor : QuadAsClaimed(q)
    /\ \A m \in Range(returned) :
          Len(m.faces) = 2 * Cardinality(DOMAIN edge_grid)

\* C10: a second call of tesselate with no HitZero in either call returns
\* the mesh the first call returned.
C10_Repeatable ==
    (Len(returned) >= 2 /\ nhit = 0) => returned[2] = returned[1]

====
